---- MODULE Spec2Model ----
(***************************************************************************)
(* Model of riff's levenshtein_diff (src/src/levenshtein.rs): the distance *)
(* matrix is filled cell by cell, then the backtracking loop walks it from *)
(* (text1.len(), text2.len()) and records Change values.                   *)
(*                                                                         *)
(* A text is a sequence of characters.  A character is a one-letter string *)
(* name; Utf8Len gives the number of bytes of its UTF-8 encoding, so that  *)
(* str::len() (bytes) and str::chars() (scalar values) are kept apart, as  *)
(* they are in the source.                                                 *)
(***************************************************************************)
EXTENDS Integers, Sequences, FiniteSets, TLC

VARIABLES text1, text2, matrix, changes, i, j, pc, result

vars == <<text1, text2, matrix, changes, i, j, pc, result>>

\* ---------------------------------------------------------------- bounds
MaxLen == 3

\* "E" stands for U+00E9, whose UTF-8 encoding takes two bytes.
Alphabet == {"a", "b", "E"}

Utf8Len(c) == IF c = "E" THEN 2 ELSE 1

\* ------------------------------------------------------------ std helpers
RECURSIVE StrLen(_)
\* str::len(): length in bytes
StrLen(text) == IF text = <<>> THEN 0 ELSE Utf8Len(Head(text)) + StrLen(Tail(text))

\* Option<T>
None == <<>>
Some(x) == <<x>>
Unwrap(o) == o[1]

\* str::chars().nth(k): the k-th scalar value, None past the end
CharsNth(text, k) == IF k < Len(text) THEN Some(text[k + 1]) ELSE None

\* usize::checked_sub
CheckedSub(x, y) == IF x >= y THEN Some(x - y) ELSE None

Min(a, b) == IF a < b THEN a ELSE b

\* Change (changes.rs)
Insertion(c, p) == [kind |-> "Insertion", c |-> c, c2 |-> c, pos |-> p]
Deletion(c, p) == [kind |-> "Deletion", c |-> c, c2 |-> c, pos |-> p]
Substitution(a, b, p) == [kind |-> "Substitution", c |-> a, c2 |-> b, pos |-> p]

\* a plausible slip: the new change is put in front (changes.insert(0, x))
PushFront(v, x) == <<x>> \o v

\* Vec::push
Push(v, x) == Append(v, x)

\* ----------------------------------------------------------------- inputs
Texts == UNION {[1..n -> Alphabet] : n \in 0..MaxLen}

\* the inputs of the unit tests of levenshtein.rs ("c".."h" are one byte)
TestInputs ==
    { << <<>>, <<>> >>,
      << <<"a","b","c">>, <<"a","b","c","d">> >>,
      << <<"a","b","c","d">>, <<"a","b","c">> >>,
      << <<"a","b","c","d">>, <<"a","b","e","d">> >>,
      << <<"a","b","c","d">>, <<"a","b","e","d","f">> >>,
      << <<"a","b","c","d">>, <<"a","b","c","d">> >>,
      << <<"a","b","c","d">>, <<"a","b","e","f","g","h">> >> }

Inputs == (Texts \X Texts) \cup TestInputs

\* --------------------------------------------------------------- the code
\* let mut matrix = vec![vec![0; text2.len() + 1]; text1.len() + 1];
ZeroMatrix(t1, t2) == [r \in 0..StrLen(t1) |-> [c \in 0..StrLen(t2) |-> 0]]

Init ==
    /\ \E inp \in Inputs : text1 = inp[1] /\ text2 = inp[2]
    /\ matrix = ZeroMatrix(text1, text2)
    /\ changes = <<>>
    /\ i = 0
    /\ j = 0
    /\ pc = "init"
    /\ result = "Running"

\* row[0] = i for every row, then *col = j for every column of row 0
BoundaryMatrix(m) ==
    [r \in DOMAIN m |-> [c \in DOMAIN m[r] |->
        IF r = 0 THEN c ELSE IF c = 0 THEN r ELSE m[r][c]]]

\* for i in 1..=text1.len() { for j in 1..=text2.len() { .. } } runs no body
\* when either range is empty
InitBoundary ==
    /\ pc = "init"
    /\ matrix' = BoundaryMatrix(matrix)
    /\ i' = IF StrLen(text2) = 0 THEN StrLen(text1) + 1 ELSE 1
    /\ j' = 1
    /\ pc' = "fill"
    /\ UNCHANGED <<text1, text2, changes, result>>

\* a plausible slip: the diagonal neighbour is left out of the minimum
CellValueNoDiagonal(m, t1, t2, r, c) ==
    IF CharsNth(t1, r - 1) = CharsNth(t2, c - 1)
    THEN m[r - 1][c - 1]
    ELSE 1 + Min(m[r - 1][c], m[r][c - 1])

\* the value the fill loop stores in matrix[r][c]
CellValue(m, t1, t2, r, c) ==
    IF CharsNth(t1, r - 1) = CharsNth(t2, c - 1)
    THEN m[r - 1][c - 1]
    ELSE 1 + Min(m[r - 1][c], Min(m[r][c - 1], m[r - 1][c - 1]))

FillCell ==
    /\ pc = "fill"
    /\ i <= StrLen(text1)
    /\ matrix' = [matrix EXCEPT ![i][j] = CellValue(matrix, text1, text2, i, j)]
    /\ IF j < StrLen(text2)
       THEN i' = i /\ j' = j + 1
       ELSE i' = i + 1 /\ j' = 1
    /\ UNCHANGED <<text1, text2, changes, pc, result>>

\* let mut i = text1.len(); let mut j = text2.len();
StartBacktrack ==
    /\ pc = "fill"
    /\ i > StrLen(text1)
    /\ i' = StrLen(text1)
    /\ j' = StrLen(text2)
    /\ pc' = "backtrack"
    /\ UNCHANGED <<text1, text2, matrix, changes, result>>

\* `?` on a None: the function returns Err(anyhow!("Underflow Error"))
Underflow ==
    /\ pc' = "done"
    /\ result' = "Underflow Error"
    /\ UNCHANGED <<text1, text2, matrix, changes, i, j>>

\* while i != 0 && j != 0
LoopCond == i # 0 /\ j # 0

\* a plausible slip: text1 is looked up at i instead of i - 1
SameCharOffByOne == CharsNth(text1, i) = CharsNth(text2, j - 1)

SameChar == CharsNth(text1, i - 1) = CharsNth(text2, j - 1)

\* a plausible slip: the two characters of the Substitution are swapped
SubstitutionChangeSwapped(a, b, r) == Substitution(b, a, r - 1)

\* the values pushed by the three recording branches at cursor row r, column c
DeletionChange(a, r) == Deletion(a, r - 1)
InsertionChange(b, c) == Insertion(b, c - 1)
SubstitutionChange(a, b, r) == Substitution(a, b, r - 1)

BtMatch ==
    /\ pc = "backtrack"
    /\ LoopCond
    /\ SameChar
    /\ IF CheckedSub(i, 1) = None \/ CheckedSub(j, 1) = None
       THEN Underflow
       ELSE /\ i' = Unwrap(CheckedSub(i, 1))
            /\ j' = Unwrap(CheckedSub(j, 1))
            /\ UNCHANGED <<text1, text2, matrix, changes, pc, result>>

BtDeletion ==
    /\ pc = "backtrack"
    /\ LoopCond
    /\ ~SameChar
    /\ matrix[i - 1][j] < matrix[i][j - 1]
    /\ IF CharsNth(text1, i - 1) = None \/ CheckedSub(i, 1) = None
       THEN Underflow
       ELSE /\ changes' = Push(changes, DeletionChange(Unwrap(CharsNth(text1, i - 1)), i))
            /\ i' = Unwrap(CheckedSub(i, 1))
            /\ UNCHANGED <<text1, text2, matrix, j, pc, result>>

BtInsertion ==
    /\ pc = "backtrack"
    /\ LoopCond
    /\ ~SameChar
    /\ ~(matrix[i - 1][j] < matrix[i][j - 1])
    /\ matrix[i - 1][j] > matrix[i][j - 1]
    /\ IF CharsNth(text2, j - 1) = None \/ CheckedSub(j, 1) = None
       THEN Underflow
       ELSE /\ changes' = Push(changes, InsertionChange(Unwrap(CharsNth(text2, j - 1)), j))
            /\ j' = Unwrap(CheckedSub(j, 1))
            /\ UNCHANGED <<text1, text2, matrix, i, pc, result>>

BtSubstitution ==
    /\ pc = "backtrack"
    /\ LoopCond
    /\ ~SameChar
    /\ ~(matrix[i - 1][j] < matrix[i][j - 1])
    /\ ~(matrix[i - 1][j] > matrix[i][j - 1])
    /\ IF \/ CharsNth(text1, i - 1) = None
          \/ CharsNth(text2, j - 1) = None
          \/ CheckedSub(i, 1) = None
          \/ CheckedSub(j, 1) = None
       THEN Underflow
       ELSE /\ changes' = Push(changes,
                    SubstitutionChange(Unwrap(CharsNth(text1, i - 1)),
                                       Unwrap(CharsNth(text2, j - 1)), i))
            /\ i' = Unwrap(CheckedSub(i, 1))
            /\ j' = Unwrap(CheckedSub(j, 1))
            /\ UNCHANGED <<text1, text2, matrix, pc, result>>

\* Ok(changes)
Return ==
    /\ pc = "backtrack"
    /\ ~LoopCond
    /\ pc' = "done"
    /\ result' = "Ok"
    /\ UNCHANGED <<text1, text2, matrix, changes, i, j>>

Next ==
    \/ InitBoundary
    \/ FillCell
    \/ StartBacktrack
    \/ BtMatch
    \/ BtDeletion
    \/ BtInsertion
    \/ BtSubstitution
    \/ Return

Spec == Init /\ [][Next]_vars

TypeOK ==
    /\ pc \in {"init", "fill", "backtrack", "done"}
    /\ result \in {"Running", "Ok", "Underflow Error"}
    /\ i \in 0..(StrLen(text1) + 1)
    /\ j \in 0..(StrLen(text2) + 1)

\* ------------------------------------------------------- reference notions
\* M and N of the data model: lengths in scalar values
M == Len(text1)
N == Len(text2)

Prefix(t, n) == SubSeq(t, 1, n)

Rank(x, S) == Cardinality({y \in S : y <= x})

\* Levenshtein distance by definition, without the recurrence: an
\* alignment keeps the characters of s at the indices A and pairs them, in
\* order, with the characters of t at the indices B; every unpaired
\* character of s is deleted, every unpaired character of t is inserted and
\* every pair of unequal characters is a substitution.
AlignCost(s, t, A, B) ==
    (Len(s) - Cardinality(A)) + (Len(t) - Cardinality(B))
    + Cardinality({a \in A : s[a] # t[CHOOSE b \in B : Rank(b, B) = Rank(a, A)]})

AlignCosts(s, t) ==
    {AlignCost(s, t, A, B) :
        <<A, B>> \in {p \in (SUBSET (1..Len(s))) \X (SUBSET (1..Len(t))) :
                        Cardinality(p[1]) = Cardinality(p[2])}}

LevRef(s, t) == CHOOSE d \in AlignCosts(s, t) : \A e \in AlignCosts(s, t) : d <= e

Reverse(s) == [k \in 1..Len(s) |-> s[Len(s) + 1 - k]]

Slice(t, a, b) == SubSeq(t, a, Min(b, Len(t)))

RECURSIVE ApplyFrom(_, _, _, _)
\* applies ops (earliest position first) to t1; s characters of t1 are
\* already consumed and out is the result built so far
ApplyFrom(t1, ops, s, out) ==
    IF ops = <<>>
    THEN out \o Slice(t1, s + 1, Len(t1))
    ELSE LET op == Head(ops) IN
         CASE op.kind = "Deletion" ->
                ApplyFrom(t1, Tail(ops), op.pos + 1, out \o Slice(t1, s + 1, op.pos))
           [] op.kind = "Substitution" ->
                ApplyFrom(t1, Tail(ops), op.pos + 1,
                          out \o Slice(t1, s + 1, op.pos) \o <<op.c2>>)
           [] op.kind = "Insertion" ->
                LET k == IF op.pos > Len(out) THEN op.pos - Len(out) ELSE 0 IN
                ApplyFrom(t1, Tail(ops), s + k,
                          out \o Slice(t1, s + 1, s + k) \o <<op.c>>)

ApplyScript(t1, script) == ApplyFrom(t1, Reverse(script), 0, <<>>)

Returned == pc = "done" /\ result = "Ok"
AfterFill == pc \in {"backtrack", "done"}
HasChange(x) == \E n \in 1..Len(changes) : changes[n] = x
OnText1(x) == x.kind \in {"Deletion", "Substitution"}

\* ------------------------------------------------------------------ claims

\* C1: round trip. Applying the returned script to text1, from the earliest
\* position to the latest, yields exactly text2.
C1_RoundTrip == Returned => ApplyScript(text1, changes) = text2

\* C2: the number of operations of the returned script equals the value of
\* cell (M, N) of the distance matrix.
C2_CountIsDistance == Returned => Len(changes) = matrix[M][N]

\* C3: the script is returned only once both cursor indices are 0: a cursor
\* that reached i = 0 with j > 0 has an Insertion(text2[k], k) in the script
\* for every k < j, and one that reached j = 0 with i > 0 has a
\* Deletion(text1[k], k) for every k < i.
C3_PrefixFlushed ==
    Returned =>
        /\ i = 0 => \A k \in 0..(j - 1) :
                        /\ CharsNth(text2, k) # None
                        /\ HasChange(Insertion(Unwrap(CharsNth(text2, k)), k))
        /\ j = 0 => \A k \in 0..(i - 1) :
                        /\ CharsNth(text1, k) # None
                        /\ HasChange(Deletion(Unwrap(CharsNth(text1, k)), k))

\* C4: levenshtein_diff is total. It never returns the "Underflow Error",
\* and no character lookup at i - 1 or j - 1 made while the matrix is filled
\* or walked back is out of range.
C4_Total ==
    /\ result # "Underflow Error"
    /\ (pc = "fill" /\ i <= StrLen(text1)) \/ (pc = "backtrack" /\ LoopCond)
        => CharsNth(text1, i - 1) # None /\ CharsNth(text2, j - 1) # None

\* C5: after the fill, matrix[r][c] is the Levenshtein distance between the
\* first r characters of text1 and the first c characters of text2, for all
\* 0 <= r <= M and 0 <= c <= N; in particular row 0 and column 0 count up.
C5_MatrixIsDistance ==
    AfterFill =>
        \A r \in 0..M : \A c \in 0..N :
            /\ matrix[r][c] = LevRef(Prefix(text1, r), Prefix(text2, c))
            /\ r = 0 => matrix[r][c] = c
            /\ c = 0 => matrix[r][c] = r

C5_Witness ==
    /\ AfterFill
    /\ M = 3 /\ N = 3
    /\ matrix[M][N] = 2
    /\ matrix[2][2] = 2
    /\ \E r \in 1..M : \E c \in 1..N : text1[r] = text2[c]

\* C6: levenshtein_diff(t, t) returns an empty script: the walk back takes
\* only match steps, from the corner to (0, 0), and records nothing.
C6_SameTextEmptyScript ==
    text1 = text2 =>
        /\ result # "Underflow Error"
        /\ changes = <<>>
        /\ AfterFill => i = j
        /\ pc = "done" => i = 0 /\ j = 0

C6_Witness ==
    /\ Returned
    /\ text1 = text2
    /\ M >= 2
    /\ \E k \in 1..M : Utf8Len(text1[k]) > 1

\* C7: the script is in reverse-position order. Of two Deletions or
\* Substitutions the earlier one in the list has the strictly greater
\* position, and so has the earlier of two Insertions.
C7_ReversePositionOrder ==
    \A a \in 1..Len(changes) : \A b \in 1..Len(changes) :
        a < b =>
            /\ OnText1(changes[a]) /\ OnText1(changes[b])
                => changes[a].pos > changes[b].pos
            /\ changes[a].kind = "Insertion" /\ changes[b].kind = "Insertion"
                => changes[a].pos > changes[b].pos

C7_Witness ==
    /\ Returned
    /\ \E a \in 1..Len(changes) : \E b \in 1..Len(changes) :
        a < b /\ OnText1(changes[a]) /\ OnText1(changes[b])
    /\ \E a \in 1..Len(changes) : \E b \in 1..Len(changes) :
        a < b /\ changes[a].kind = "Insertion" /\ changes[b].kind = "Insertion"

ChangeConsistent(x) ==
    CASE x.kind = "Deletion" -> x.pos < M /\ text1[x.pos + 1] = x.c
      [] x.kind = "Insertion" -> x.pos < N /\ text2[x.pos + 1] = x.c
      [] x.kind = "Substitution" ->
            /\ x.pos < M
            /\ text1[x.pos + 1] = x.c
            /\ \E q \in 0..(N - 1) : text2[q + 1] = x.c2
            /\ x.c # x.c2

\* what one step of the walk back may do to the script at cursor (i, j): it
\* leaves it alone, or it appends one operation; a Substitution carries the
\* character of text2 at column j - 1, and a step that compares equal
\* characters appends nothing
StepConsistent ==
    \/ changes' = changes
    \/ /\ Len(changes') = Len(changes) + 1
       /\ SubSeq(changes', 1, Len(changes)) = changes
       /\ ~SameChar
       /\ LET x == changes'[Len(changes')] IN
            x.kind = "Substitution" => j - 1 < N /\ x.c2 = text2[j]

\* C8: every operation of the script is consistent with the inputs:
\* Deletion(c, p) has p < M and text1[p] = c; Insertion(c, p) has p < N and
\* text2[p] = c; Substitution(a, b, p) has p < M, text1[p] = a, b the
\* character of text2 at the column of the step, and a # b.
C8_ChangesConsistent ==
    /\ [](\A n \in 1..Len(changes) : ChangeConsistent(changes[n]))
    /\ [][StepConsistent]_vars

C8_Witness ==
    /\ Returned
    /\ \E n \in 1..Len(changes) : changes[n].kind = "Deletion"
    /\ \E n \in 1..Len(changes) : changes[n].kind = "Insertion"
    /\ \E n \in 1..Len(changes) : changes[n].kind = "Substitution"

\* C9: every step of the walk back moves along an optimal path:
\* (number of operations recorded so far) + matrix[i][j] stays equal to the
\* value of the cell the walk started from.
C9_OptimalPath ==
    pc = "backtrack" =>
        Len(changes) + matrix[i][j] = matrix[StrLen(text1)][StrLen(text2)]

\* the step prescribed at cursor (i, j) when the compared characters differ
PolicyStep ==
    LET up == matrix[i - 1][j]
        left == matrix[i][j - 1]
        a == CharsNth(text1, i - 1)
        b == CharsNth(text2, j - 1)
    IN  /\ up < left =>
            /\ a # None
            /\ changes' = Append(changes, Deletion(Unwrap(a), i - 1))
            /\ i' = i - 1 /\ j' = j
        /\ up > left =>
            /\ b # None
            /\ changes' = Append(changes, Insertion(Unwrap(b), j - 1))
            /\ i' = i /\ j' = j - 1
        /\ up = left =>
            /\ a # None /\ b # None
            /\ changes' = Append(changes, Substitution(Unwrap(a), Unwrap(b), i - 1))
            /\ i' = i - 1 /\ j' = j - 1

ManyChangesScript ==
    << Insertion("h", 5), Insertion("g", 4),
       Substitution("d", "f", 3), Substitution("c", "e", 2) >>

\* C10: at every step of the walk back with i > 0, j > 0 and unequal
\* characters exactly one transition is taken, chosen by comparing
\* matrix[i-1][j] with matrix[i][j-1] only: smaller records a Deletion and
\* decrements i, greater records an Insertion and decrements j, equal records
\* a Substitution and decrements both; ("abcd", "abefgh") yields
\* [Insertion('h',5), Insertion('g',4), Substitution('d','f',3),
\* Substitution('c','e',2)].
C10_TieBreakPolicy ==
    /\ [][(pc = "backtrack" /\ i > 0 /\ j > 0 /\ ~SameChar) => PolicyStep]_vars
    /\ [](/\ pc = "done"
          /\ text1 = <<"a", "b", "c", "d">>
          /\ text2 = <<"a", "b", "e", "f", "g", "h">>
          => result = "Ok" /\ changes = ManyChangesScript)
====
